---- MODULE Spec2Model ----
(***************************************************************************)
(* Model of the conversation engine of src/sv.py: the shared transcript    *)
(* (UltraFastChatBot.messages), its RLock, the thread pool (executor), the *)
(* request handlers (api_chat, api_clear, api_history) and the background  *)
(* tasks (_llm_call_once, background_fill, save_history_async, delete).    *)
(***************************************************************************)
EXTENDS Integers, Sequences, FiniteSets, TLC

VARIABLES
    maxMessages,    \* self.max_messages (MAX_MESSAGES, read from the environment)
    storeUrl,       \* whether STORAGE_API_URL (and requests) is configured
    messages,       \* self.messages
    lockOwner,      \* holder of self._lock (an RLock), or Free
    clock,          \* wall clock in seconds (time.time(), _now_ts())
    lastSaveTime,   \* self._last_save_time
    store,          \* what the Durable Store holds (last posted payload)
    pc,             \* position of each request thread
    cur,            \* locals of each request thread
    out,            \* response of the last request each thread answered
    queue,          \* executor: work items not yet taken by a worker
    running,        \* executor: work items a worker is running
    nextReq,        \* number of requests received so far
    posts,          \* history: the last two posts to the Durable Store
    fallbacks,      \* history: number of calls that failed or timed out for their caller
    discarded,      \* history: a trim or a clear has removed a user or assistant turn
    eff,            \* history: what the current request of each thread caused
    backends        \* what the backends do for the call studied alone (BackendsCall)

vars == <<maxMessages, storeUrl, messages, lockOwner, clock, lastSaveTime, store,
          pc, cur, out, queue, running, nextReq, posts, fallbacks, discarded, eff,
          backends>>

-----------------------------------------------------------------------------
(* Bounds of the model *)

\* requests received in one behaviour
MaxRequests == 2
\* the configured max_messages (MAX_MESSAGES; 80 when the environment sets none)
MaxMessages == 3
\* a configured max_messages that has room for two exchanges and the system turn
RoomyMessages == 5
\* calls of the backends that fail or time out for the thread waiting for them
MaxFallbacks == 1
\* seconds the clock advances in one behaviour
MaxTicks == 1

(* Program constants *)

\* executor = ThreadPoolExecutor(max_workers=6)
MaxWorkers == 6
\* SAVE_INTERVAL default, seconds
SaveInterval == 3
\* api_chat: len(message) > 1500
MaxInputLen == 1500
\* get_response_ultra_fast: len(self.messages) % 5
SystemPeriod == 5
\* api_history: bot.messages[-30:]
HistoryLimit == 30
\* llm_reply accepted when len(llm_reply.strip()) >= 2
MinReplyLen == 2

\* request threads (Flask threaded=True serves requests in parallel)
Handlers == {1, 2}

Free == <<"free", 0>>
ReqThread(h) == <<"request", h>>
Worker(i) == <<"worker", i>>

\* no call is studied alone
NoBackends == [g4f |-> "unavailable", http |-> "unavailable", late |-> FALSE]

\* _llm_call_once returns None, or a reply of a stripped length
NoneReply == [by |-> "none", len |-> 0]

-----------------------------------------------------------------------------
(* Sequences as Python lists *)

\* s[-k:] of a Python list: the whole list when k = 0
PySliceLast(s, k) ==
    IF k = 0 \/ k >= Len(s) THEN s ELSE SubSeq(s, Len(s) - k + 1, Len(s))

IsSystem(m) == m.role = "system"
IsNonSystem(m) == m.role # "system"

SystemMsgs(ms) == SelectSeq(ms, IsSystem)
NonSystemMsgs(ms) == SelectSeq(ms, IsNonSystem)

\* int(self.max_messages * 0.6)
TrimKeep(mx) == (mx * 6) \div 10
\* int(self.max_messages * 0.8)
TrimThreshold(mx) == (mx * 8) \div 10

\* _trim_messages
TrimMessages(ms, mx) ==
    IF Len(ms) > mx
    THEN SystemMsgs(ms) \o PySliceLast(NonSystemMsgs(ms), TrimKeep(mx))
    ELSE ms

\* a faulty append without the retention check
NoRetention(ms, mx) == ms

\* if len(self.messages) > int(self.max_messages * 0.8): self._trim_messages()
TrimAfterAppend(ms, mx) ==
    IF Len(ms) > TrimThreshold(mx) THEN TrimMessages(ms, mx) ELSE ms

Turn(role, ex, content, ts) == [role |-> role, ex |-> ex, content |-> content, ts |-> ts]

\* a faulty add_system_with_time that leaves the system turns in place
KeepSystem(ms) == ms

\* add_system_with_time, first statement: drop the system turns
WithoutSystem(ms) == NonSystemMsgs(ms)
\* add_system_with_time, last statement: insert(0, system turn)
InsertSystem(ms, ts) == <<Turn("system", 0, "context", ts)>> \o ms

\* get_response_ultra_fast line 285
NeedSystem(ms) == SystemMsgs(ms) = <<>> \/ Len(ms) % SystemPeriod = 0

\* a faulty clear_history that keeps a system turn
ClearedButContext == <<Turn("system", 0, "context", 0)>>

\* clear_history: self.messages = []
ClearedMessages == <<>>

\* fewer user and assistant turns after than before
Lost(before, after) == Len(NonSystemMsgs(after)) < Len(NonSystemMsgs(before))

-----------------------------------------------------------------------------
(* Inputs of api_chat: the raw "message" field *)

Inputs == {"  ", " Clear ", "xoa", "May GIO roi", "hello", "LONG"}

\* str.strip()
Strip(s) ==
    CASE s = "  " -> ""
      [] s = " Clear " -> "Clear"
      [] OTHER -> s

\* a faulty lower() that leaves the case as it is
SameCase(s) == s

\* str.lower()
Lower(s) ==
    CASE s = "Clear" -> "clear"
      [] s = "May GIO roi" -> "may gio roi"
      [] s = "LONG" -> "long"
      [] OTHER -> s

\* len(message); "LONG" stands for a message of 1501 characters
StrLen(s) ==
    CASE s = "" -> 0
      [] s = "Clear" -> 5
      [] s = "xoa" -> 3
      [] s = "May GIO roi" -> 11
      [] s = "hello" -> 5
      [] s = "LONG" -> MaxInputLen + 1
      [] OTHER -> 1

ClearTokens == {"clear", "/clear", "xoa"}

\* any(k in message.lower() for k in time_keywords); "gio" stands for "giờ"
HasTimeKeyword(s) == s \in {"may gio roi"}

\* a faulty validation without the length limit
ClassifyUnbounded(raw) ==
    LET message == Strip(raw) IN
    IF StrLen(message) = 0 THEN "empty"
    ELSE IF Lower(message) \in ClearTokens THEN "clear"
    ELSE IF HasTimeKeyword(Lower(message)) THEN "time"
    ELSE "generate"

\* api_chat lines 388-412: validation and classification
Classify(raw) ==
    LET message == Strip(raw) IN
    IF StrLen(message) = 0 THEN "empty"
    ELSE IF StrLen(message) > MaxInputLen THEN "too_long"
    ELSE IF Lower(message) \in ClearTokens THEN "clear"
    ELSE IF HasTimeKeyword(Lower(message)) THEN "time"
    ELSE "generate"

-----------------------------------------------------------------------------
(* The lock and the executor *)

\* a faulty lock that any thread takes at any time
LockIgnored(th) == TRUE

\* a faulty lock that is a threading.Lock: its holder cannot take it again
NotReentrant(th) == lockOwner = Free

\* threading.RLock: free, or already held by the same thread
CanAcquire(th) == lockOwner = Free \/ lockOwner = th

Pool == [queue |-> queue, running |-> running]
TaskIds(p) == {t.id : t \in p.running} \cup {p.queue[i].id : i \in 1..Len(p.queue)}
FreshId(p) == CHOOSE i \in 1..(Cardinality(TaskIds(p)) + 1) : i \notin TaskIds(p)

\* executor.submit(kind, ...): a free worker takes the work item at once, and it waits in
\* the queue when the max_workers workers are all busy
Submit(p, kind, req, force) ==
    LET task == [id |-> FreshId(p), kind |-> kind, req |-> req, force |-> force,
                 pc |-> "start", at |-> 0]
    IN  IF Cardinality(p.running) < MaxWorkers
        THEN [p EXCEPT !.running = @ \cup {task}]
        ELSE [p EXCEPT !.queue = Append(@, task)]

\* the worker of t is done with it and takes the oldest waiting work item
Finish(p, t) ==
    IF p.queue = <<>>
    THEN [p EXCEPT !.running = @ \ {t}]
    ELSE [queue |-> Tail(p.queue), running |-> (p.running \ {t}) \cup {Head(p.queue)}]

\* the worker of t goes on to position pos
Step(p, t, pos, at) == [p EXCEPT !.running = (@ \ {t}) \cup {[t EXCEPT !.pc = pos, !.at = at]}]

\* future.cancel(): a work item no worker has taken is dropped
Cancel(p, req) ==
    [p EXCEPT !.queue = SelectSeq(@, LAMBDA t : ~(t.kind = "llm" /\ t.req = req))]

SetPool(p) == queue' = p.queue /\ running' = p.running

NoEffect == [llm |-> FALSE, fill |-> FALSE, save |-> FALSE, del |-> FALSE]
NoLocals == [req |-> 0, path |-> "none", len |-> 0, ts |-> 0, reply |-> "none"]
NoResponse == [kind |-> "none", text |-> "", turns |-> <<>>]
Response(kind, text) == [kind |-> kind, text |-> text, turns |-> <<>>]

\* the locals a thread keeps once its request is answered
Returned(l) == [NoLocals EXCEPT !.req = l.req, !.path = l.path]

\* the state after UltraFastChatBot() when the store holds no history, max_messages
\* being mx
Start(mx) ==
    /\ maxMessages = mx
    /\ storeUrl \in BOOLEAN
    /\ messages = <<>>
    /\ lockOwner = Free
    /\ clock = SaveInterval
    /\ lastSaveTime = 0
    /\ store = <<>>
    /\ pc = [h \in Handlers |-> "idle"]
    /\ cur = [h \in Handlers |-> NoLocals]
    /\ out = [h \in Handlers |-> NoResponse]
    /\ queue = <<>>
    /\ running = {}
    /\ nextReq = 0
    /\ posts = <<>>
    /\ fallbacks = 0
    /\ discarded = FALSE
    /\ eff = [h \in Handlers |-> NoEffect]
    /\ backends = NoBackends

Init == Start(MaxMessages)

-----------------------------------------------------------------------------
(* api_chat, api_clear, api_history: the request threads *)

\* a request is served by a thread of its own; which one has no meaning, so the model
\* gives it to the first thread that is idle
Begin(h, path, len, ts) ==
    /\ pc[h] = "idle"
    /\ \A g \in Handlers : g < h => pc[g] # "idle"
    /\ nextReq < MaxRequests
    /\ nextReq' = nextReq + 1
    /\ cur' = [cur EXCEPT ![h] = [NoLocals EXCEPT !.req = nextReq + 1, !.path = path,
                                                   !.len = len, !.ts = ts]]
    /\ eff' = [eff EXCEPT ![h] = NoEffect]

\* the answer to a message that fails validation (lines 389-392)
Rejection(class) ==
    CASE class = "empty" -> Response("error", "Empty message")
      [] class = "too_long" -> Response("error", "Message too long")
      [] OTHER -> NoResponse

\* where api_chat goes on with a message of a class (lines 389-412)
Branch(class) ==
    CASE class = "clear" -> "clear"
      [] class = "time" -> "time_append"
      [] class = "generate" -> "ensure"
      [] OTHER -> "idle"

\* api_chat up to the branch taken: validation, clear tokens, time keywords (and line 404)
ApiChat(h) ==
    \E raw \in Inputs :
        /\ Begin(h, Classify(raw), StrLen(Strip(raw)), clock)
        /\ pc' = [pc EXCEPT ![h] = Branch(Classify(raw))]
        /\ out' = [out EXCEPT ![h] = Rejection(Classify(raw))]
        /\ UNCHANGED <<backends, maxMessages, storeUrl, messages, lockOwner, clock, lastSaveTime,
                       store, queue, running, posts, fallbacks, discarded>>

\* api_clear
ApiClear(h) ==
    /\ Begin(h, "api_clear", 0, clock)
    /\ pc' = [pc EXCEPT ![h] = "clear"]
    /\ out' = [out EXCEPT ![h] = NoResponse]
    /\ UNCHANGED <<backends, maxMessages, storeUrl, messages, lockOwner, clock, lastSaveTime,
                   store, queue, running, posts, fallbacks, discarded>>

\* api_history: reads bot.messages[-30:] without the lock
ApiHistory(h) ==
    /\ Begin(h, "history", 0, clock)
    /\ out' = [out EXCEPT ![h] =
                [kind |-> "history", text |-> "", turns |-> PySliceLast(messages, HistoryLimit)]]
    /\ UNCHANGED <<backends, maxMessages, storeUrl, messages, lockOwner, clock, lastSaveTime,
                   store, pc, queue, running, posts, fallbacks, discarded>>

\* the answer to a clear: api_chat line 397, api_clear line 429
ClearResponse(path) ==
    IF path = "clear" THEN Response("reply", "Da xoa lich su chat.") ELSE Response("ack", "Cleared")

\* clear_history: with self._lock: self.messages = []; then the delete is handed to the
\* executor when the store is configured, and the request is answered
ClearHistory(h) ==
    /\ pc[h] = "clear"
    /\ CanAcquire(ReqThread(h))
    /\ messages' = ClearedMessages
    /\ discarded' = (discarded \/ Lost(messages, ClearedMessages))
    /\ SetPool(IF storeUrl THEN Submit(Pool, "delete", cur[h].req, FALSE) ELSE Pool)
    /\ eff' = [eff EXCEPT ![h].del = storeUrl]
    /\ out' = [out EXCEPT ![h] = ClearResponse(cur[h].path)]
    /\ cur' = [cur EXCEPT ![h] = Returned(cur[h])]
    /\ pc' = [pc EXCEPT ![h] = "idle"]
    /\ UNCHANGED <<backends, maxMessages, storeUrl, lockOwner, clock, lastSaveTime, store, nextReq,
                   posts, fallbacks>>

\* api_chat line 406, under bot._lock
TimeAppendUser(h) ==
    /\ pc[h] = "time_append"
    /\ CanAcquire(ReqThread(h))
    /\ lockOwner' = ReqThread(h)
    /\ messages' = Append(messages, Turn("user", cur[h].req, "input", cur[h].ts))
    /\ pc' = [pc EXCEPT ![h] = "time_append2"]
    /\ UNCHANGED <<backends, maxMessages, storeUrl, clock, lastSaveTime, store, cur, out, queue,
                   running, nextReq, posts, fallbacks, discarded, eff>>

\* api_chat lines 407-409: the assistant turn, the end of the with block,
\* bot.save_history_async(), the reply
TimeAppendAssistant(h) ==
    /\ pc[h] = "time_append2"
    /\ messages' = Append(messages, Turn("assistant", cur[h].req, "time", cur[h].ts))
    /\ lockOwner' = Free
    /\ SetPool(Submit(Pool, "save", cur[h].req, FALSE))
    /\ eff' = [eff EXCEPT ![h].save = TRUE]
    /\ out' = [out EXCEPT ![h] = Response("reply", "time")]
    /\ cur' = [cur EXCEPT ![h] = Returned(cur[h])]
    /\ pc' = [pc EXCEPT ![h] = "idle"]
    /\ UNCHANGED <<backends, maxMessages, storeUrl, clock, lastSaveTime, store, nextReq, posts, fallbacks, discarded>>

-----------------------------------------------------------------------------
(* get_response_ultra_fast *)

\* llm_reply and len(llm_reply.strip()) >= 2
Acceptable(r) == r.by # "none" /\ r.len >= MinReplyLen

\* line 285, read without the lock: the system turn is to be replaced
Ensure(h) ==
    /\ pc[h] = "ensure"
    /\ NeedSystem(messages)
    /\ pc' = [pc EXCEPT ![h] = "add_system"]
    /\ UNCHANGED <<backends, maxMessages, storeUrl, messages, lockOwner, clock, lastSaveTime, store,
                   cur, out, queue, running, nextReq, posts, fallbacks, discarded, eff>>

\* add_system_with_time line 150, taking the lock
AddSystemFilter(h) ==
    /\ pc[h] = "add_system"
    /\ CanAcquire(ReqThread(h))
    /\ lockOwner' = ReqThread(h)
    /\ messages' = WithoutSystem(messages)
    /\ pc' = [pc EXCEPT ![h] = "add_system2"]
    /\ UNCHANGED <<backends, maxMessages, storeUrl, clock, lastSaveTime, store, cur, out, queue,
                   running, nextReq, posts, fallbacks, discarded, eff>>

\* add_system_with_time line 153, releasing the lock
AddSystemInsert(h) ==
    /\ pc[h] = "add_system2"
    /\ messages' = InsertSystem(messages, clock)
    /\ lockOwner' = Free
    /\ pc' = [pc EXCEPT ![h] = "payload"]
    /\ UNCHANGED <<backends, maxMessages, storeUrl, clock, lastSaveTime, store, cur, out, queue,
                   running, nextReq, posts, fallbacks, discarded, eff>>

\* the test of line 285 fails, or add_system_with_time is over
AtPayload(h) == pc[h] = "payload" \/ (pc[h] = "ensure" /\ ~NeedSystem(messages))

\* lines 288-294: build the payload, executor.submit(self._llm_call_once, payload), wait
SubmitLlm(h) ==
    /\ AtPayload(h)
    /\ SetPool(Submit(Pool, "llm", cur[h].req, FALSE))
    /\ eff' = [eff EXCEPT ![h].llm = TRUE]
    /\ pc' = [pc EXCEPT ![h] = "wait"]
    /\ UNCHANGED <<backends, maxMessages, storeUrl, messages, lockOwner, clock, lastSaveTime, store,
                   cur, out, nextReq, posts, fallbacks, discarded>>

\* an unexpected exception inside the try block (line 283), before the call
InternalError(h) ==
    /\ AtPayload(h)
    /\ pc' = [pc EXCEPT ![h] = "error"]
    /\ UNCHANGED <<backends, maxMessages, storeUrl, messages, lockOwner, clock, lastSaveTime, store,
                   cur, out, queue, running, nextReq, posts, fallbacks, discarded, eff>>

\* future.result raises TimeoutError; future.cancel() (lines 295-302)
WaitTimeout(h) ==
    /\ pc[h] = "wait"
    /\ fallbacks < MaxFallbacks
    /\ fallbacks' = fallbacks + 1
    /\ SetPool(Cancel(Pool, cur[h].req))
    /\ pc' = [pc EXCEPT ![h] = "quick"]
    /\ UNCHANGED <<backends, maxMessages, storeUrl, messages, lockOwner, clock, lastSaveTime, store,
                   cur, out, nextReq, posts, discarded, eff>>

HasAssistant(ms) == \E i \in 1..Len(ms) : ms[i].role = "assistant"

\* _generate_quick_reply lines 272-279
QuickReplyText(ms) == IF HasAssistant(ms) THEN "quick_summary" ELSE "quick_default"

\* line 312: _generate_quick_reply reads the last assistant turn under the lock; lines
\* 314-339: background_fill(payload_messages, user_input) is submitted, ts is read
QuickReply(h) ==
    /\ pc[h] = "quick"
    /\ CanAcquire(ReqThread(h))
    /\ cur' = [cur EXCEPT ![h].reply = QuickReplyText(messages), ![h].ts = clock]
    /\ SetPool(Submit(Pool, "fill", cur[h].req, FALSE))
    /\ eff' = [eff EXCEPT ![h].fill = TRUE]
    /\ pc' = [pc EXCEPT ![h] = "append"]
    /\ UNCHANGED <<backends, maxMessages, storeUrl, messages, lockOwner, clock, lastSaveTime, store,
                   out, nextReq, posts, fallbacks, discarded>>

\* line 341, taking the lock
AppendUser(h) ==
    /\ pc[h] = "append"
    /\ CanAcquire(ReqThread(h))
    /\ lockOwner' = ReqThread(h)
    /\ messages' = Append(messages, Turn("user", cur[h].req, "input", cur[h].ts))
    /\ pc' = [pc EXCEPT ![h] = "append2"]
    /\ UNCHANGED <<backends, maxMessages, storeUrl, clock, lastSaveTime, store, cur, out, queue,
                   running, nextReq, posts, fallbacks, discarded, eff>>

\* lines 342-356: the assistant turn, the retention check, the end of the with block,
\* self.save_history_async(), return bot_reply
AppendAssistant(h) ==
    /\ pc[h] = "append2"
    /\ LET appended == Append(messages,
                               Turn("assistant", cur[h].req, cur[h].reply, cur[h].ts))
       IN  /\ messages' = TrimAfterAppend(appended, maxMessages)
           /\ discarded' = (discarded \/ Lost(appended, messages'))
    /\ lockOwner' = Free
    /\ SetPool(Submit(Pool, "save", cur[h].req, FALSE))
    /\ eff' = [eff EXCEPT ![h].save = TRUE]
    /\ out' = [out EXCEPT ![h] = Response("reply", cur[h].reply)]
    /\ cur' = [cur EXCEPT ![h] = Returned(cur[h])]
    /\ pc' = [pc EXCEPT ![h] = "idle"]
    /\ UNCHANGED <<backends, maxMessages, storeUrl, clock, lastSaveTime, store, nextReq, posts,
                   fallbacks>>

\* a faulty except branch that lets the exception out as an error
RaisedResponse == Response("error", "Internal error")

\* the answer of the except branch (line 366)
BusyResponse == Response("reply", "He thong dang ban")

\* lines 358-366: record the user turn alone under the lock, save_history_async(), the
\* busy reply
ErrorPath(h) ==
    /\ pc[h] = "error"
    /\ CanAcquire(ReqThread(h))
    /\ messages' = Append(messages, Turn("user", cur[h].req, "input", clock))
    /\ SetPool(Submit(Pool, "save", cur[h].req, FALSE))
    /\ eff' = [eff EXCEPT ![h].save = TRUE]
    /\ out' = [out EXCEPT ![h] = BusyResponse]
    /\ cur' = [cur EXCEPT ![h] = Returned(cur[h])]
    /\ pc' = [pc EXCEPT ![h] = "idle"]
    /\ UNCHANGED <<backends, maxMessages, storeUrl, lockOwner, clock, lastSaveTime, store, nextReq, posts, fallbacks, discarded>>

-----------------------------------------------------------------------------
(* The executor's workers *)

\* what one backend does: it is not available, it raises, or it returns a text of a
\* stripped length
BackendOutcomes == {"unavailable", "raises", "empty", "short", "good"}
ReplyLen(o) == CASE o = "empty" -> 0 [] o = "short" -> 1 [] OTHER -> MinReplyLen
Returns(o) == o \in {"empty", "short", "good"}

\* _llm_call_once: g4f, then OpenAI over HTTP, then None. A backend that returns, returns
\* to the caller whatever the text is; the next one is tried when it is unavailable or raises
LlmCallOnce(g4f, http) ==
    IF Returns(g4f) THEN [by |-> "g4f", len |-> ReplyLen(g4f)]
    ELSE IF Returns(http) THEN [by |-> "http", len |-> ReplyLen(http)]
    ELSE NoneReply

\* every result the backends' behaviours give
LlmResults == {LlmCallOnce(g4f, http) : g4f \in BackendOutcomes, http \in BackendOutcomes}

\* the request thread waiting for the future of request req
Waiting(req) == {h \in Handlers : pc[h] = "wait" /\ cur[h].req = req}

\* the call of work item t gives its caller, still waiting, no acceptable reply
Fails(t, r) == Waiting(t.req) # {} /\ ~Acceptable(r)

\* the work item of line 291 ends and the thread waiting in future.result goes on:
\* lines 307-309 and 339 with an acceptable reply, line 312 without. The result of an
\* abandoned call is discarded
LlmFinish ==
    \E t \in running, r \in LlmResults :
        /\ t.kind = "llm"
        /\ Waiting(t.req) = {} => r = NoneReply
        /\ Fails(t, r) => fallbacks < MaxFallbacks
        /\ fallbacks' = IF Fails(t, r) THEN fallbacks + 1 ELSE fallbacks
        /\ cur' = [h \in Handlers |->
                     IF h \in Waiting(t.req) /\ Acceptable(r)
                     THEN [cur[h] EXCEPT !.reply = "llm", !.ts = clock] ELSE cur[h]]
        /\ pc' = [h \in Handlers |->
                     IF h \in Waiting(t.req)
                     THEN (IF Acceptable(r) THEN "append" ELSE "quick") ELSE pc[h]]
        /\ SetPool(Finish(Pool, t))
        /\ UNCHANGED <<backends, maxMessages, storeUrl, messages, lockOwner, clock, lastSaveTime,
                       store, out, nextReq, posts, discarded, eff>>

\* background_fill lines 317-319: the second call; ts when the reply is acceptable
FillCall ==
    \E t \in running, r \in LlmResults :
        /\ t.kind = "fill" /\ t.pc = "start"
        /\ SetPool(IF Acceptable(r) THEN Step(Pool, t, "fill_append", clock)
                   ELSE Finish(Pool, t))
        /\ UNCHANGED <<backends, maxMessages, storeUrl, messages, lockOwner, clock, lastSaveTime,
                       store, pc, cur, out, nextReq, posts, fallbacks, discarded, eff>>

\* background_fill line 322, taking the lock
FillAppendUser ==
    \E t \in running :
        /\ t.kind = "fill" /\ t.pc = "fill_append"
        /\ CanAcquire(Worker(t.id))
        /\ lockOwner' = Worker(t.id)
        /\ messages' = Append(messages, Turn("user", t.req, "input", t.at))
        /\ SetPool(Step(Pool, t, "fill_append2", t.at))
        /\ UNCHANGED <<backends, maxMessages, storeUrl, clock, lastSaveTime, store, pc, cur, out,
                       nextReq, posts, fallbacks, discarded, eff>>

\* background_fill lines 323-328: the assistant turn, the retention check, the end of the
\* with block, self.save_history_async(force=True)
FillAppendAssistant ==
    \E t \in running :
        /\ t.kind = "fill" /\ t.pc = "fill_append2"
        /\ LET appended == Append(messages, Turn("assistant", t.req, "fuller", t.at))
           IN  /\ messages' = TrimAfterAppend(appended, maxMessages)
               /\ discarded' = (discarded \/ Lost(appended, messages'))
        /\ lockOwner' = Free
        /\ SetPool(Finish(Submit(Pool, "save", t.req, TRUE), t))
        /\ UNCHANGED <<backends, maxMessages, storeUrl, clock, lastSaveTime, store, pc, cur, out,
                       nextReq, posts, fallbacks, eff>>

\* if not force and (current - self._last_save_time) < self._save_interval: return
Debounced(force, current, last) == ~force /\ (current - last) < SaveInterval

\* save_history_async lines 179-181: the clock and self._last_save_time, read without
\* the lock
SaveCheck ==
    \E t \in running :
        /\ t.kind = "save" /\ t.pc = "start"
        /\ SetPool(IF Debounced(t.force, clock, lastSaveTime)
                   THEN Finish(Pool, t)
                   ELSE Step(Pool, t, "save_lock", clock))
        /\ UNCHANGED <<backends, maxMessages, storeUrl, messages, lockOwner, clock, lastSaveTime,
                       store, pc, cur, out, nextReq, posts, fallbacks, discarded, eff>>

\* save_history_async lines 182-184: take the lock; above max_messages the worker goes
\* on to _trim_messages, which takes the lock again
SaveLock ==
    \E t \in running :
        /\ t.kind = "save" /\ t.pc = "save_lock"
        /\ CanAcquire(Worker(t.id))
        /\ lockOwner' = Worker(t.id)
        /\ SetPool(Step(Pool, t, IF Len(messages) > maxMessages THEN "save_trim"
                                  ELSE "save_post", t.at))
        /\ UNCHANGED <<backends, maxMessages, storeUrl, messages, clock, lastSaveTime, store, pc,
                       cur, out, nextReq, posts, fallbacks, discarded, eff>>

\* save_history_async line 185: _trim_messages (lines 121-126) takes the lock its caller
\* holds, trims and gives back its own hold; the caller's hold stays
SaveTrim ==
    \E t \in running :
        /\ t.kind = "save" /\ t.pc = "save_trim"
        /\ CanAcquire(Worker(t.id))
        /\ messages' = TrimMessages(messages, maxMessages)
        /\ discarded' = (discarded \/ Lost(messages, messages'))
        /\ SetPool(Step(Pool, t, "save_post", t.at))
        /\ UNCHANGED <<backends, maxMessages, storeUrl, lockOwner, clock, lastSaveTime, store, pc,
                       cur, out, nextReq, posts, fallbacks, eff>>

\* {"messages": self.messages[-self.max_messages:]}
Payload(ms, mx) == PySliceLast(ms, mx)

\* the last two posts to the store
Posted(ps, at, force) == PySliceLast(Append(ps, [at |-> at, force |-> force]), 2)

\* save_history_async lines 187-198, the lock held: requests.post to the store (and to
\* /history when the first post raises; stored: one of them got through),
\* self._last_save_time = current, release
SavePost ==
    \E t \in running, stored \in BOOLEAN :
        /\ t.kind = "save" /\ t.pc = "save_post"
        /\ store' = IF storeUrl /\ stored THEN Payload(messages, maxMessages)
                    ELSE store
        /\ posts' = IF storeUrl THEN Posted(posts, clock, t.force) ELSE posts
        /\ lastSaveTime' = t.at
        /\ lockOwner' = Free
        /\ SetPool(Finish(Pool, t))
        /\ UNCHANGED <<backends, maxMessages, storeUrl, messages, clock, pc, cur, out, nextReq, fallbacks, discarded, eff>>

\* clear_history line 138: requests.delete(STORAGE_API_URL)
DeleteCall ==
    \E t \in running, ok \in BOOLEAN :
        /\ t.kind = "delete"
        /\ store' = IF ok THEN <<>> ELSE store
        /\ SetPool(Finish(Pool, t))
        /\ UNCHANGED <<backends, maxMessages, storeUrl, messages, lockOwner, clock, lastSaveTime,
                       pc, cur, out, nextReq, posts, fallbacks, discarded, eff>>

\* time passes
Tick ==
    /\ clock < SaveInterval + MaxTicks
    /\ clock' = clock + 1
    /\ UNCHANGED <<backends, maxMessages, storeUrl, messages, lockOwner, lastSaveTime, store, pc,
                   cur, out, queue, running, nextReq, posts, fallbacks, discarded, eff>>

Request(h) ==
    \/ ApiChat(h) \/ ApiClear(h) \/ ApiHistory(h)
    \/ ClearHistory(h)
    \/ TimeAppendUser(h) \/ TimeAppendAssistant(h)
    \/ Ensure(h) \/ AddSystemFilter(h) \/ AddSystemInsert(h)
    \/ SubmitLlm(h) \/ InternalError(h) \/ WaitTimeout(h)
    \/ QuickReply(h) \/ AppendUser(h) \/ AppendAssistant(h)
    \/ ErrorPath(h)

Background ==
    \/ LlmFinish
    \/ FillCall \/ FillAppendUser \/ FillAppendAssistant
    \/ SaveCheck \/ SaveLock \/ SaveTrim \/ SavePost \/ DeleteCall

Next == (\E h \in Handlers : Request(h)) \/ Background \/ Tick

Spec == Init /\ [][Next]_vars

\* the server once it has answered a time query, the save of that request still with the
\* executor: api_chat lines 400-409 from the state after construction
InitAnswered ==
    /\ maxMessages = MaxMessages
    /\ storeUrl \in BOOLEAN
    /\ messages = <<Turn("user", 1, "input", SaveInterval),
                     Turn("assistant", 1, "time", SaveInterval)>>
    /\ lockOwner = Free
    /\ clock = SaveInterval
    /\ lastSaveTime = 0
    /\ store = <<>>
    /\ pc = [h \in Handlers |-> "idle"]
    /\ cur = [h \in Handlers |-> IF h = 1 THEN [NoLocals EXCEPT !.req = 1, !.path = "time"]
                                          ELSE NoLocals]
    /\ out = [h \in Handlers |-> IF h = 1 THEN Response("reply", "time") ELSE NoResponse]
    /\ LET p == Submit([queue |-> <<>>, running |-> {}], "save", 1, FALSE)
       IN  queue = p.queue /\ running = p.running
    /\ nextReq = 1
    /\ posts = <<>>
    /\ fallbacks = 0
    /\ discarded = FALSE
    /\ eff = [h \in Handlers |-> IF h = 1 THEN [NoEffect EXCEPT !.save = TRUE] ELSE NoEffect]
    /\ backends = NoBackends

\* the threads of the server and the workers of the executor are scheduled: whatever can
\* run does run
FairSpec == InitAnswered /\ [][Next]_vars /\ WF_vars(Next)

\* the same program configured with a max_messages that two exchanges fit in
InitRoomy == Start(RoomyMessages)
SpecRoomy == InitRoomy /\ [][Next]_vars

-----------------------------------------------------------------------------
(* Properties *)

\* the paths of a message that passed validation: what handle() stands for
HandlePaths == {"clear", "time", "generate"}

\* thread h answers its request in this step
Answers(h) == pc[h] # "idle" /\ pc'[h] = "idle"

\* C1: at the moment a handle() call returns (a clear, a time query, a generation with a
\* real or a fallback reply, the internal-error path), the transcript holds at most
\* maxMessages turns.
C1_LengthBoundedAtReturn ==
    [][\A h \in Handlers :
          (Answers(h) /\ cur[h].path \in HandlePaths) => Len(messages') <= maxMessages]_vars

\* C2: in every reachable state the transcript holds at most one turn with role system.
C2_AtMostOneSystemTurn == Len(SystemMsgs(messages)) <= 1

\* C2, its case: a system turn is in the transcript and a thread is about to replace it
C2_Witness ==
    /\ Len(SystemMsgs(messages)) = 1
    /\ \E h \in Handlers : pc[h] = "add_system"

\* a list of turns without a torn pair: every assistant turn directly follows the user
\* turn of its exchange, and a user turn whose exchange has its assistant turn further on
\* in the list is directly followed by it
PairsWhole(turns) ==
    \A i \in 1..Len(turns) :
        /\ turns[i].role = "assistant" =>
              i > 1 /\ turns[i - 1].role = "user" /\ turns[i - 1].ex = turns[i].ex
        /\ (turns[i].role = "user"
              /\ \E j \in (i + 1)..Len(turns) :
                     turns[j].role = "assistant" /\ turns[j].ex = turns[i].ex)
           => turns[i + 1].role = "assistant" /\ turns[i + 1].ex = turns[i].ex

\* C3: a read of the transcript by history() never observes a torn pair: no user turn of
\* a completed exchange without its assistant turn, no assistant turn whose user turn
\* is missing.
C3_NoTornPairObserved ==
    \A h \in Handlers : out[h].kind = "history" => PairsWhole(out[h].turns)

\* thread h has returned from a time query or a generation with a reply for it
Answered(h) ==
    /\ pc[h] = "idle"
    /\ cur[h].path \in {"time", "generate"}
    /\ out[h].kind = "reply" /\ out[h] # BusyResponse

\* the exchange of request req is in the transcript, its user turn directly followed by
\* its assistant turn
ExchangeWhole(req) ==
    \E i \in 1..(Len(messages) - 1) :
        /\ messages[i].role = "user" /\ messages[i].ex = req
        /\ messages[i + 1].role = "assistant" /\ messages[i + 1].ex = req

\* C5: a user turn of one exchange is never directly followed by the assistant turn of
\* another, whatever handle() calls and background retries run concurrently; and once
\* all calls have returned and nothing was discarded, the transcript holds the exchange
\* of every answered call, its user turn directly followed by its own assistant turn.
C5_ExchangesNotInterleaved ==
    /\ \A i \in 1..(Len(messages) - 1) :
          (messages[i].role = "user" /\ messages[i + 1].role = "assistant")
          => messages[i].ex = messages[i + 1].ex
    /\ ((\A h \in Handlers : pc[h] = "idle") /\ ~discarded)
       => \A h \in Handlers : Answered(h) => ExchangeWhole(cur[h].req)

\* C5, its case: two generations that ran concurrently are both answered, one of them by
\* a fallback whose background retry is still running, and nothing was discarded
C5_Witness ==
    /\ \A h \in Handlers :
          Answered(h) /\ cur[h].path = "generate" /\ ExchangeWhole(cur[h].req)
    /\ \E t \in running : t.kind = "fill"
    /\ ~discarded
    /\ Len(NonSystemMsgs(messages)) >= 4

\* the work items of request req that executor p holds
TasksOf(p, req) ==
    {t \in p.running : t.req = req}
        \cup {p.queue[i] : i \in {j \in 1..Len(p.queue) : p.queue[j].req = req}}

\* thread h leaves clear_history and answers
Clears(h) == pc[h] = "clear" /\ pc'[h] = "idle"

\* C6: a clear (a reserved clear token sent to chat, or the clear() operation), from any
\* transcript, an empty one included, and whatever the backends did before, leaves the
\* transcript empty, answers with the fixed confirmation and no error, hands a delete of
\* the Durable Store to the executor when a store is configured, and never calls the
\* Generation Backend nor schedules a retry or a save; a repeated clear does the same.
C6_ClearEmptiesAndConfirms ==
    [][\A h \in Handlers :
          Clears(h) =>
              /\ messages' = <<>>
              /\ out'[h] = ClearResponse(cur[h].path)
              /\ out'[h].kind \in {"reply", "ack"}
              /\ eff'[h] = [NoEffect EXCEPT !.del = storeUrl]
              /\ storeUrl => \E t \in TasksOf(Pool', cur[h].req) : t.kind = "delete"
              /\ \A t \in TasksOf(Pool', cur[h].req) : t.kind = "delete"]_vars

\* C6, its case: a clear token was answered after a backend call had failed, it removed
\* turns of the transcript and the delete was handed to the executor
C6_Witness ==
    \E h \in Handlers :
        /\ pc[h] = "idle" /\ cur[h].path = "clear"
        /\ out[h] = ClearResponse("clear")
        /\ messages = <<>> /\ discarded /\ fallbacks > 0
        /\ eff[h].del

\* the classes of a message that fails validation
InvalidClasses == {"empty", "too_long"}
\* what api_chat makes of a message
ChatClasses == InvalidClasses \cup HandlePaths

\* api_chat: len(message) = 0 after strip, or len(message) > 1500
Invalid(len) == len = 0 \/ len > MaxInputLen

\* thread h takes a chat request in this step
TakesChat(h) == pc[h] = "idle" /\ cur'[h] # cur[h] /\ cur'[h].path \in ChatClasses

\* C8: a message that is empty after strip or longer than the maximum is answered at once
\* with its own validation error; the transcript, the lock, the executor, the save time
\* and the store are left as they were, so no backend call, no retry and no save is caused.
C8_InvalidInputHasNoEffect ==
    [][\A h \in Handlers :
          (TakesChat(h) /\ Invalid(cur'[h].len)) =>
              /\ pc'[h] = "idle"
              /\ out'[h] = Rejection(cur'[h].path) /\ out'[h].kind = "error"
              /\ eff'[h] = NoEffect
              /\ TasksOf(Pool', cur'[h].req) = {}
              /\ UNCHANGED <<messages, lockOwner, queue, running, lastSaveTime, store,
                             posts>>]_vars

\* C8, its case: an over-length message was rejected while the transcript held turns and
\* another request was being served
C8_Witness ==
    \E h \in Handlers :
        /\ pc[h] = "idle" /\ cur[h].path = "too_long" /\ Invalid(cur[h].len)
        /\ out[h].kind = "error"
        /\ messages # <<>>
        /\ \E g \in Handlers : pc[g] # "idle"

\* C9: two writes of non-forced saves to the Durable Store are never less than
\* SaveInterval apart, whatever the interleaving of the save work items.
C9_NonForcedWritesDebounced ==
    (Len(posts) = 2 /\ ~posts[1].force /\ ~posts[2].force)
    => posts[2].at - posts[1].at >= SaveInterval

\* the positions where a request thread needs the transcript lock to go on
LockPositions == {"clear", "time_append", "add_system", "quick", "append", "error"}

\* a worker is inside the post of a save to the Durable Store, holding the lock
SavingWorker(t) ==
    /\ t.kind = "save" /\ t.pc = "save_post"
    /\ lockOwner = Worker(t.id)
    /\ storeUrl

\* C10: no request thread ever waits for the transcript lock while a worker that holds it
\* is in the middle of a Durable Store save.
C10_ReplyPathNeverWaitsForSave ==
    \A h \in Handlers :
        pc[h] \in LockPositions => ~ \E t \in running : SavingWorker(t)

\* the replies get_response_ultra_fast gives to a message it generates for: the backend's
\* text, a reply computed locally, the busy text
GenerateReplies == {"llm", "quick_summary", "quick_default", BusyResponse.text}

\* C7: a validated message is always answered by a reply and never by an error: for a
\* generation the reply is the backend's text, a locally computed fallback or the busy
\* text, the latter only from the except branch, which records the user turn alone; and
\* every request a thread has taken is eventually answered, whether the backend returns,
\* raises or does not respond within the deadline.
C7_AlwaysAnswers ==
    /\ [][\A h \in Handlers :
            (Answers(h) /\ cur[h].path \in HandlePaths) =>
                /\ out'[h].kind = "reply"
                /\ cur[h].path = "generate" => out'[h].text \in GenerateReplies
                /\ out'[h] = BusyResponse =>
                      /\ pc[h] = "error"
                      /\ Len(messages') = Len(messages) + 1
                      /\ messages'[Len(messages')].role = "user"
                      /\ messages'[Len(messages')].ex = cur[h].req]_vars
    /\ \A h \in Handlers : (pc[h] # "idle") ~> (pc[h] = "idle")

\* C7, its case: the backend call failed or timed out and the request was answered by a
\* fallback reply
C7_Witness ==
    /\ fallbacks > 0
    /\ \E h \in Handlers :
          /\ pc[h] = "idle" /\ cur[h].path = "generate"
          /\ out[h].kind = "reply" /\ out[h].text \in {"quick_summary", "quick_default"}

-----------------------------------------------------------------------------
(* _trim_messages alone, on every list of turns up to a length *)

\* the largest max_messages tried
MaxTrimMessages == 3
\* turns a list holds beyond max_messages
MaxExcess == 2

TrimRoles == {"system", "user", "assistant"}

InitTrim ==
    /\ maxMessages \in 1..MaxTrimMessages
    /\ storeUrl = FALSE
    /\ messages = <<>>
    /\ lockOwner = Free
    /\ clock = SaveInterval
    /\ lastSaveTime = 0
    /\ store = <<>>
    /\ pc = [h \in Handlers |-> "feed"]
    /\ cur = [h \in Handlers |-> NoLocals]
    /\ out = [h \in Handlers |-> NoResponse]
    /\ queue = <<>>
    /\ running = {}
    /\ nextReq = 0
    /\ posts = <<>>
    /\ fallbacks = 0
    /\ discarded = FALSE
    /\ eff = [h \in Handlers |-> NoEffect]
    /\ backends = NoBackends

\* self.messages.append(...): one more turn of any role
TrimFeed ==
    /\ \A h \in Handlers : pc[h] = "feed"
    /\ Len(messages) < maxMessages + MaxExcess
    /\ \E role \in TrimRoles :
          messages' = Append(messages, Turn(role, Len(messages) + 1, "input", clock))
    /\ UNCHANGED <<backends, maxMessages, storeUrl, lockOwner, clock, lastSaveTime, store, pc, cur,
                   out, queue, running, nextReq, posts, fallbacks, discarded, eff>>

\* if len(self.messages) > self.max_messages: self._trim_messages()
TrimFire ==
    /\ \A h \in Handlers : pc[h] = "feed"
    /\ Len(messages) > maxMessages
    /\ messages' = TrimMessages(messages, maxMessages)
    /\ pc' = [h \in Handlers |-> "trimmed"]
    /\ UNCHANGED <<backends, maxMessages, storeUrl, lockOwner, clock, lastSaveTime, store, cur,
                   out, queue, running, nextReq, posts, fallbacks, discarded, eff>>

NextTrim == TrimFeed \/ TrimFire

SpecTrim == InitTrim /\ [][NextTrim]_vars

\* the last k elements of s, none when k = 0
LastOf(s, k) == IF k >= Len(s) THEN s ELSE SubSeq(s, Len(s) - k + 1, Len(s))

\* C4: when trimming fires, the transcript becomes all its system turns followed by its
\* most recent floor(maxMessages * 0.6) non-system turns in their order, none of them
\* when that number is 0.
C4_TrimKeepsMostRecent ==
    [][(\A h \in Handlers : pc[h] = "feed" /\ pc'[h] = "trimmed") =>
          messages' = SystemMsgs(messages)
                        \o LastOf(NonSystemMsgs(messages), TrimKeep(maxMessages))]_vars

-----------------------------------------------------------------------------
(* save_history_async and _load_history_external alone: one save of a list of turns, *)
(* then the load of a fresh engine                                                  *)

\* a faulty load that only accepts a bare list from the store
LoadListOnly(data, mx) ==
    IF data.shape = "list" THEN PySliceLast(data.messages, mx) ELSE <<>>

\* json={"messages": ...} of requests.post, as the store gives it back
JsonBody(payload) == [shape |-> "dict", messages |-> payload]

\* _load_history_external lines 165-171 on the json of a fresh engine, whose messages
\* are []: a dict with "messages", or a list; anything else leaves the messages empty
LoadHistory(data, mx) ==
    CASE data.shape = "dict" -> PySliceLast(data.messages, mx)
      [] data.shape = "list" -> PySliceLast(data.messages, mx)
      [] OTHER -> <<>>

\* save_history_async lines 182-198 with the store available: the trim above
\* max_messages, the post of the payload
StoreSave ==
    /\ \A h \in Handlers : pc[h] = "feed"
    /\ messages' = TrimMessages(messages, maxMessages)
    /\ discarded' = Lost(messages, messages')
    /\ store' = JsonBody(Payload(messages', maxMessages))
    /\ lastSaveTime' = clock
    /\ pc' = [h \in Handlers |-> "saved"]
    /\ UNCHANGED <<backends, maxMessages, storeUrl, lockOwner, clock, cur, out, queue, running,
                   nextReq, posts, fallbacks, eff>>

\* UltraFastChatBot() of a fresh process: _load_history_external
StoreLoad ==
    /\ \A h \in Handlers : pc[h] = "saved"
    /\ messages' = LoadHistory(store, maxMessages)
    /\ lastSaveTime' = 0
    /\ pc' = [h \in Handlers |-> "loaded"]
    /\ UNCHANGED <<backends, maxMessages, storeUrl, lockOwner, clock, store, cur, out, queue,
                   running, nextReq, posts, fallbacks, discarded, eff>>

NextStore == TrimFeed \/ StoreSave \/ StoreLoad

SpecStore == InitTrim /\ [][NextStore]_vars

\* C11: with the store available, the load of a fresh engine after a completed save gives
\* the last maxMessages turns of the transcript that was saved, the same turns in the
\* same order.
C11_SaveLoadRoundTrip ==
    [][(\A h \in Handlers : pc[h] = "saved" /\ pc'[h] = "loaded") =>
          messages' = LastOf(messages, maxMessages)]_vars

\* C11, its case: a transcript above max_messages was saved, the save trimmed it, and the
\* fresh engine has loaded turns
C11_Witness ==
    /\ \A h \in Handlers : pc[h] = "loaded"
    /\ discarded
    /\ Len(messages) >= 2

-----------------------------------------------------------------------------
(* Properties of the paths of a request *)

\* the inputs that hold a time keyword in some case and are no clear token
TimeInputs == {"May GIO roi"}

\* the turns of request req in a list of turns, by role
TurnsOf(ms, req, role) == SelectSeq(ms, LAMBDA m : m.ex = req /\ m.role = role)

\* the executor holds, for request req, one save that is not forced and nothing else
OnlyPlainSave(p, req) ==
    /\ Cardinality(TasksOf(p, req)) = 1
    /\ \A t \in TasksOf(p, req) : t.kind = "save" /\ ~t.force

\* C12: a message that holds a time keyword in any case, and is no clear token, takes the
\* fast path: its user and assistant turn are appended as one pair while the thread holds
\* the lock, one non-forced save is handed to the executor, and no backend call and no
\* background retry is made for it.
C12_TimeQueryFastPath ==
    /\ \A raw \in TimeInputs : Classify(raw) = "time"
    /\ [][\A h \in Handlers :
            /\ (TakesChat(h) /\ cur'[h].path = "time") =>
                  pc'[h] = "time_append" /\ TasksOf(Pool', cur'[h].req) = {}
            /\ (pc[h] = "time_append" /\ pc'[h] # pc[h]) =>
                  /\ pc'[h] = "time_append2" /\ lockOwner' = ReqThread(h)
                  /\ messages' = Append(messages, Turn("user", cur[h].req, "input", cur[h].ts))
                  /\ UNCHANGED <<queue, running>>
            /\ (pc[h] = "time_append2" /\ pc'[h] # pc[h]) =>
                  /\ lockOwner = ReqThread(h) /\ lockOwner' = Free
                  /\ messages' = Append(messages,
                                        Turn("assistant", cur[h].req, "time", cur[h].ts))
                  /\ Len(TurnsOf(messages', cur[h].req, "user")) = 1
                  /\ Len(TurnsOf(messages', cur[h].req, "assistant")) = 1
                  /\ messages'[Len(messages') - 1].role = "user"
                  /\ messages'[Len(messages') - 1].ex = cur[h].req
                  /\ OnlyPlainSave(Pool', cur[h].req)
                  /\ eff'[h] = [NoEffect EXCEPT !.save = TRUE]
                  /\ out'[h] = Response("reply", "time") /\ pc'[h] = "idle"
            /\ cur[h].path = "time" =>
                  \A t \in TasksOf(Pool, cur[h].req) : t.kind = "save"]_vars

\* C12, its case: a time query was answered after a backend call had failed, another
\* thread's turns being in the transcript
C12_Witness ==
    \E h \in Handlers :
        /\ pc[h] = "idle" /\ cur[h].path = "time" /\ out[h] = Response("reply", "time")
        /\ fallbacks > 0
        /\ Len(TurnsOf(messages, cur[h].req, "assistant")) = 1
        /\ Len(messages) > 2

\* a step that completes the pair of a generation or of a background retry and releases
\* the lock: get_response_ultra_fast lines 342-344, background_fill lines 323-325
CompletesPair ==
    \/ \E h \in Handlers : pc[h] = "append2" /\ pc'[h] = "idle"
    \/ \E t \in running :
          /\ t.kind = "fill" /\ t.pc = "fill_append2"
          /\ lockOwner = Worker(t.id) /\ lockOwner' = Free

\* C13: when the append of a pair by handle() or by a background retry leaves the
\* transcript above 0.8 * maxMessages, retention shrinks it before the lock is released,
\* and the length the step leaves is below maxMessages.
C13_RetentionShrinksAboveThreshold ==
    [][(CompletesPair /\ 10 * (Len(messages) + 1) > 8 * maxMessages) =>
          /\ Len(messages') < Len(messages) + 1
          /\ Len(messages') < maxMessages]_vars

\* the replies a generation ends with: REPLY_OK, or a fallback
TerminalReplies == {"llm", "quick_summary", "quick_default"}

\* what the retention check of lines 343-344 leaves of a list of turns
Retained(ms, mx) ==
    IF 10 * Len(ms) > 8 * mx /\ Len(ms) > mx
    THEN SystemMsgs(ms) \o PySliceLast(NonSystemMsgs(ms), (6 * mx) \div 10)
    ELSE ms

\* C14: every terminal path of a generation (the backend's reply, the fallback after a
\* timeout, the fallback after an error or an unacceptable reply) appends the request's
\* user turn and the assistant turn that carries the reply returned to the caller, as one
\* pair while the thread holds the lock, then runs the retention check, then hands a
\* non-forced save to the executor, all in the steps that end with the answer.
C14_TerminalPathAppendsPair ==
    [][\A h \in Handlers :
          /\ pc[h] \in {"append", "append2"} => cur[h].reply \in TerminalReplies
          /\ (pc[h] = "append" /\ pc'[h] # pc[h]) =>
                /\ pc'[h] = "append2" /\ lockOwner' = ReqThread(h)
                /\ messages' = Append(messages, Turn("user", cur[h].req, "input", cur[h].ts))
          /\ (pc[h] = "append2" /\ pc'[h] # pc[h]) =>
                /\ lockOwner = ReqThread(h) /\ lockOwner' = Free
                /\ messages[Len(messages)] = Turn("user", cur[h].req, "input", cur[h].ts)
                /\ out'[h] = Response("reply", cur[h].reply)
                /\ messages' = Retained(Append(messages,
                                   Turn("assistant", cur[h].req, out'[h].text, cur[h].ts)),
                                        maxMessages)
                /\ \E t \in TasksOf(Pool', cur[h].req) \ TasksOf(Pool, cur[h].req) :
                      t.kind = "save" /\ ~t.force
                /\ pc'[h] = "idle"]_vars

\* C14, its case: a generation was answered by a fallback, its pair is in the transcript
\* and its save is with the executor
C14_Witness ==
    \E h \in Handlers :
        /\ pc[h] = "idle" /\ cur[h].path = "generate"
        /\ out[h].text \in {"quick_summary", "quick_default"}
        /\ ExchangeWhole(cur[h].req)
        /\ \E t \in TasksOf(Pool, cur[h].req) : t.kind = "save" /\ ~t.force

-----------------------------------------------------------------------------
(* _llm_call_once and the test of its result alone, on every behaviour of the two *)
(* backends                                                                       *)

\* one generation waits for its call; the backends behave in any way, and the call ends
\* before the deadline or not
InitBackends ==
    /\ maxMessages = MaxMessages
    /\ storeUrl = FALSE
    /\ messages = <<>>
    /\ lockOwner = Free
    /\ clock = SaveInterval
    /\ lastSaveTime = 0
    /\ store = <<>>
    /\ pc = [h \in Handlers |-> "wait"]
    /\ cur = [h \in Handlers |-> [NoLocals EXCEPT !.req = 1, !.path = "generate"]]
    /\ out = [h \in Handlers |-> NoResponse]
    /\ queue = <<>>
    /\ running = {}
    /\ nextReq = 1
    /\ posts = <<>>
    /\ fallbacks = 0
    /\ discarded = FALSE
    /\ eff = [h \in Handlers |-> NoEffect]
    /\ backends \in [g4f : BackendOutcomes, http : BackendOutcomes, late : BOOLEAN]

\* self._llm_call_once(payload_messages) in the worker: by whom and how long the text is
BackendsCall ==
    /\ \A h \in Handlers : pc[h] = "wait"
    /\ LET r == LlmCallOnce(backends.g4f, backends.http)
       IN  cur' = [h \in Handlers |-> [cur[h] EXCEPT !.reply = r.by, !.len = r.len]]
    /\ pc' = [h \in Handlers |-> "called"]
    /\ UNCHANGED <<backends, maxMessages, storeUrl, messages, lockOwner, clock,
                   lastSaveTime, store, out, queue, running, nextReq, posts, fallbacks,
                   discarded, eff>>

\* lines 294-312: future.result within the deadline or TimeoutError, the test of the
\* reply, bot_reply
BackendsResult ==
    /\ \A h \in Handlers : pc[h] = "called"
    /\ out' = [h \in Handlers |->
                 IF ~backends.late /\ Acceptable([by |-> cur[h].reply, len |-> cur[h].len])
                 THEN Response("reply", cur[h].reply)
                 ELSE Response("reply", QuickReplyText(messages))]
    /\ pc' = [h \in Handlers |-> "idle"]
    /\ UNCHANGED <<backends, maxMessages, storeUrl, messages, lockOwner, clock,
                   lastSaveTime, store, cur, queue, running, nextReq, posts, fallbacks,
                   discarded, eff>>

NextBackends == BackendsCall \/ BackendsResult

SpecBackends == InitBackends /\ [][NextBackends]_vars

\* the backend gives a reply of at least 2 characters after strip
GivesAcceptable(o) == o = "good"

\* the first backend of the list that gives an acceptable reply, if any
FirstAcceptable(b) ==
    IF GivesAcceptable(b.g4f) THEN "g4f"
    ELSE IF GivesAcceptable(b.http) THEN "http"
    ELSE "none"

\* C15: the backends are tried in the order of the list, and the reply returned is that of
\* the first backend giving an acceptable reply: a backend that raises or gives no
\* acceptable reply lets the next one be tried, and the fallback is returned only when no
\* backend of the list gives an acceptable reply before the deadline.
C15_FirstAcceptableBackendWins ==
    [][(\A h \in Handlers : pc[h] = "called" /\ pc'[h] = "idle") =>
          \A h \in Handlers :
              out'[h].text = IF ~backends.late /\ FirstAcceptable(backends) # "none"
                             THEN FirstAcceptable(backends)
                             ELSE QuickReplyText(messages)]_vars

-----------------------------------------------------------------------------
(* Properties of the background retry, the system turn, the order of the turns *)

\* the assistant turn a background retry appends
IsCorrected(m) == m.role = "assistant" /\ m.content = "fuller"
\* the assistant turn of a fallback reply
IsDegraded(m) == m.role = "assistant" /\ m.content \in {"quick_summary", "quick_default"}

\* C16: a background retry takes effect only after the degraded reply of its request has
\* been recorded and returned: while the request is still being served the transcript
\* holds no corrected turn of it, and the corrected pair never precedes the degraded pair
\* of the same request.
C16_RetryAfterDegradedReply ==
    /\ \A h \in Handlers :
          pc[h] # "idle" =>
              \A i \in 1..Len(messages) :
                  ~(IsCorrected(messages[i]) /\ messages[i].ex = cur[h].req)
    /\ \A i \in 1..Len(messages) : \A j \in (i + 1)..Len(messages) :
          ~(/\ IsCorrected(messages[i]) /\ IsDegraded(messages[j])
            /\ messages[i].ex = messages[j].ex)

\* the exchange counter when thread h serves the latest request, all the earlier ones
\* being answered: the requests taken before it
ExchangesBefore(h) == cur[h].req - 1

\* C17: at the start of a generation that no other request runs along with, the system
\* turn is replaced by a fresh one if and only if the transcript holds no system turn or
\* the number of exchanges handled so far is a multiple of the period 5; otherwise the
\* system turn is left as it is.
C17_SystemTurnEveryFifthExchange ==
    [][\A h \in Handlers :
          (/\ pc[h] = "ensure" /\ pc'[h] # pc[h]
           /\ cur[h].req = nextReq /\ \A g \in Handlers \ {h} : pc[g] = "idle") =>
              (pc'[h] = "add_system"
                  <=> (SystemMsgs(messages) = <<>> \/ ExchangesBefore(h) % SystemPeriod = 0))]_vars

\* C18: in every reachable state the timestamps of the transcript's turns do not decrease
\* from the first position to the last.
C18_TimestampsNonDecreasing ==
    \A i \in 1..Len(messages) : \A j \in (i + 1)..Len(messages) :
        messages[i].ts <= messages[j].ts

\* the latest request taken is a clear (a clear token sent to chat, or api_clear) that has
\* been answered, and no request is being served
ClearCompleted ==
    /\ \A h \in Handlers : pc[h] = "idle"
    /\ \E h \in Handlers : cur[h].req = nextReq /\ cur[h].path \in {"clear", "api_clear"}

\* C19: once a clear has completed and as long as no further request is taken, the
\* transcript stays empty: no step of a worker started before the clear puts a turn back.
C19_StaysEmptyAfterClear ==
    [][(ClearCompleted /\ messages = <<>> /\ nextReq' = nextReq) => messages' = <<>>]_vars

\* no request is being served and the executor has nothing queued or running: with no
\* further request, nothing will write to the store any more
Quiescent ==
    /\ \A h \in Handlers : pc[h] = "idle"
    /\ queue = <<>> /\ running = {}

\* the store is configured and the one post made to it got through
StoreAvailable == storeUrl /\ Len(posts) = 1 /\ store # <<>>

\* the exchange of the transcript's last turn
LastExchange == messages[Len(messages)].ex

\* C20: when the requests have stopped and all background work is done, a Durable Store
\* that was available holds a snapshot with the last exchange of the transcript.
C20_LastExchangePersisted ==
    (Quiescent /\ StoreAvailable /\ messages # <<>>) =>
        \E i \in 1..Len(store) : store[i].ex = LastExchange

-----------------------------------------------------------------------------
(* The executor with all its workers busy *)

\* the transcript after n time queries, none of them trimmed (api_chat lines 405-408)
TimeTurns(n) ==
    [i \in 1..(2 * n) |->
        IF i % 2 = 1 THEN Turn("user", (i + 1) \div 2, "input", SaveInterval)
        ELSE Turn("assistant", (i + 1) \div 2, "time", SaveInterval)]

\* the save of time query i once its worker has passed the test of line 180, at second
\* SaveInterval, and is about to take the lock (line 182)
PendingSave(i) ==
    [id |-> i, kind |-> "save", req |-> i, force |-> FALSE, pc |-> "save_lock",
     at |-> SaveInterval]

\* the server after max_workers time queries in a row, their saves each with a worker that
\* found no save done yet (_last_save_time is 0) and waits for the lock, and a message to
\* generate for, whose thread has inserted the system turn and submitted the backend call
\* (line 291): the call waits in the executor's queue and the thread waits for its future
\* (line 294). No store is configured: a save takes the lock, trims and sets
\* _last_save_time (lines 182-198), the post of line 192 left out
InitSaturated ==
    /\ maxMessages = MaxMessages
    /\ storeUrl = FALSE
    /\ messages = InsertSystem(TimeTurns(MaxWorkers), SaveInterval)
    /\ lockOwner = Free
    /\ clock = SaveInterval
    /\ lastSaveTime = 0
    /\ store = <<>>
    /\ pc = [h \in Handlers |-> IF h = 1 THEN "wait" ELSE "idle"]
    /\ cur = [h \in Handlers |->
                IF h = 1 THEN [NoLocals EXCEPT !.req = MaxWorkers + 1, !.path = "generate",
                                               !.len = StrLen(Strip("hello")),
                                               !.ts = SaveInterval]
                ELSE [NoLocals EXCEPT !.req = MaxWorkers, !.path = "time"]]
    /\ out = [h \in Handlers |-> IF h = 1 THEN NoResponse ELSE Response("reply", "time")]
    /\ running = {PendingSave(i) : i \in 1..MaxWorkers}
    /\ queue = <<[id |-> MaxWorkers + 1, kind |-> "llm", req |-> MaxWorkers + 1,
                  force |-> FALSE, pc |-> "start", at |-> 0]>>
    /\ nextReq = MaxWorkers + 1
    /\ posts = <<>>
    /\ fallbacks = 0
    /\ discarded = FALSE
    /\ eff = [h \in Handlers |-> IF h = 1 THEN [NoEffect EXCEPT !.llm = TRUE]
                                  ELSE [NoEffect EXCEPT !.save = TRUE]]
    /\ backends = NoBackends

\* the steps left to the waiting thread and to the workers, within the same second
NextSaturated ==
    \/ \E h \in Handlers :
          WaitTimeout(h) \/ QuickReply(h) \/ AppendUser(h) \/ AppendAssistant(h)
    \/ LlmFinish
    \/ FillCall \/ FillAppendUser \/ FillAppendAssistant
    \/ SaveCheck \/ SaveLock \/ SaveTrim \/ SavePost

\* the threads and the workers are scheduled: whatever can run does run
SpecSaturated == InitSaturated /\ [][NextSaturated]_vars /\ WF_vars(NextSaturated)

\* C21: with the executor's workers all busy and work waiting in its queue, nothing
\* deadlocks: every hold of the transcript lock, the one a save keeps while _trim_messages
\* takes the lock again included, is released; every request thread, waiting for the lock
\* or for a future, gets to its answer; every work item waiting for a worker gets one; and
\* in the end no thread runs, no work is left and the lock is free.
C21_NoDeadlock ==
    /\ (lockOwner # Free) ~> (lockOwner = Free)
    /\ \A h \in Handlers : (pc[h] # "idle") ~> (pc[h] = "idle")
    /\ (queue # <<>>) ~> (queue = <<>>)
    /\ <>[](Quiescent /\ lockOwner = Free)

\* C21, its case: the workers are all busy, a work item waits in the queue, a save holds
\* the lock and is about to take it again in _trim_messages, and a request thread waits
\* for the lock
C21_Witness ==
    /\ Cardinality(running) = MaxWorkers /\ queue # <<>>
    /\ \E t \in running : t.pc = "save_trim" /\ lockOwner = Worker(t.id)
    /\ \E h \in Handlers : pc[h] \in LockPositions

====
